---- MODULE Spec2Model ----
(***************************************************************************)
(* Model of ForwarderBot (src/main.py): a Telegram bot that watches source *)
(* channels, filters each new message, rewrites its text, and republishes  *)
(* it (with a QR image of the embedded link) to every target channel,      *)
(* remembering the ids it has forwarded in forwarded_messages.             *)
(*                                                                         *)
(* A text is a sequence of tokens.  The literal part of BINANCE_LINK_PATTERN*)
(* is one token (LinkPrefix), a digit is one token, and so are the words.  *)
(* A coroutine runs without interruption between two awaits, so there is   *)
(* one action per such segment of handle_message and of run.               *)
(***************************************************************************)
EXTENDS Integers, Sequences, FiniteSets, TLC

\* ------------------------------------------------------------------ bounds
\* Longest message text, in tokens (SpecText).
MaxLen == 5
\* Inbound events delivered in one behaviour (Spec, SpecSeq).
MaxEvents == 2
\* Message ids are 1..MaxId.
MaxId == 2

\* ------------------------------------------------------- configuration
FORBIDDEN_WORDS == {"big", "box", "#square", "#slot", "thxbox", "thx", "angelia"}
VALID_NUMBERS == {"USDT", "Answer:", "#square"}
LinkPrefix == "https://app.binance.com/uni-qr/cart/"
source_channels == <<"-1002804941127", "-1002327293945">>
target_channels == <<"-1002767963315", "-1002361267520">>

Digits == {"1", "2"}
Alphabet == {LinkPrefix, "1", "2", "USDT", "box", " "}
AllTexts == UNION {[1..n -> Alphabet] : n \in 0..MaxLen}
Ids == 1..MaxId

\* The texts the source channels post in Spec and SpecSeq: no text, a link
\* without a marker, and a qualifying message.
SampleTexts ==
  { <<>>,
    <<LinkPrefix, "1">>,
    <<"USDT", " ", LinkPrefix, "1">> }

\* ------------------------------------------------------- regex on tokens
\* End of the greedy match of BINANCE_LINK_PATTERN starting at i, 0 if none.
RECURSIVE DigitsEnd(_, _)
DigitsEnd(text, j) ==
  IF j + 1 <= Len(text) /\ text[j + 1] \in Digits
    THEN DigitsEnd(text, j + 1)
    ELSE j

MatchEnd(text, i) ==
  IF i + 1 <= Len(text) /\ text[i] = LinkPrefix /\ text[i + 1] \in Digits
    THEN DigitsEnd(text, i + 1)
    ELSE 0

\* BINANCE_LINK_PATTERN.search(text) is not None
PatternSearch(text) == \E i \in 1..Len(text) : MatchEnd(text, i) # 0

\* BINANCE_LINK_PATTERN.findall(text): the non-overlapping matches, left to right
RECURSIVE FindAllFrom(_, _)
FindAllFrom(text, i) ==
  IF i > Len(text) THEN <<>>
  ELSE IF MatchEnd(text, i) # 0
    THEN <<SubSeq(text, i, MatchEnd(text, i))>> \o FindAllFrom(text, MatchEnd(text, i) + 1)
    ELSE FindAllFrom(text, i + 1)

PatternFindAll(text) == FindAllFrom(text, 1)

\* BINANCE_LINK_PATTERN.sub(repl, text): every match replaced by repl
RECURSIVE SubFrom(_, _, _)
SubFrom(repl, text, i) ==
  IF i > Len(text) THEN <<>>
  ELSE IF MatchEnd(text, i) # 0
    THEN repl \o SubFrom(repl, text, MatchEnd(text, i) + 1)
    ELSE <<text[i]>> \o SubFrom(repl, text, i + 1)

PatternSub(repl, text) == SubFrom(repl, text, 1)

\* ------------------------------------------------------- filter, transform
\* any(num in message_text for num in VALID_NUMBERS)
HasValidNumber(text) == \E i \in 1..Len(text) : text[i] \in VALID_NUMBERS

\* The link is not required.
should_forward_MarkerOnly(text) ==
  IF text = <<>> THEN FALSE
  ELSE HasValidNumber(text)

\* The marker is not required.
should_forward_LinkOnly(text) ==
  IF text = <<>> THEN FALSE
  ELSE PatternSearch(text)

should_forward(text) ==
  IF text = <<>> THEN FALSE
  ELSE PatternSearch(text) /\ HasValidNumber(text)

\* The first forbidden word of the text is removed (a replace with count=1).
RECURSIVE StripFirstForbidden(_)
StripFirstForbidden(text) ==
  IF text = <<>> THEN <<>>
  ELSE IF Head(text) \in FORBIDDEN_WORDS THEN Tail(text)
  ELSE <<Head(text)>> \o StripFirstForbidden(Tail(text))

clean_message_StripOne(text) == StripFirstForbidden(text)

clean_message(text) == text

\* binance_links and cleaned_text as handle_message computes them
binance_links(text) == PatternFindAll(text)

cleaned_text(text) ==
  IF binance_links(text) # <<>>
    THEN PatternSub(binance_links(text)[1], text)
    ELSE text

\* ------------------------------------------------------------------ state
VARIABLES
  run_pc,              \* where run() is: "start", "resolve", "verify", "monitoring", "failed"
  resolved_sources,    \* self.resolved_sources
  verified,            \* how many target channels initialize has verified
  forwarded_messages,  \* self.forwarded_messages
  tasks,               \* the handle_message invocations, in order of arrival
  qr_works             \* whether generate_qr_code works with the installed libraries

vars == <<run_pc, resolved_sources, verified, forwarded_messages, tasks, qr_works>>

\* generate_qr_code is a deterministic function of the link and of the installed
\* qrcode and PIL: it returns the PNG buffer on every call, or raises on every
\* call (draw.textsize at line 114 does not exist in every PIL).
generate_qr_code(url) == IF qr_works THEN "png" ELSE "raise"

TaskIds == 1..Len(tasks)

\* One pass of the loop body that made no send call, or one send call and its result.
Attempt(target, op, text, result) ==
  [target |-> target, op |-> op, text |-> text, result |-> result]

Log(t, a) == [t EXCEPT !.attempts = Append(@, a)]

\* The exception leaves handle_message instead of being caught.
OuterExcept_Propagates(t) == [t EXCEPT !.pc = "raised", !.outcome = "error"]

\* except Exception at line 188: log, and the invocation returns normally.
OuterExcept(t) == [t EXCEPT !.pc = "done", !.outcome = "error"]

\* The body of the for loop from target number i up to the next await (a send
\* call) or to the end of the loop.  When generate_qr_code raises, the except at
\* line 183 logs and the loop goes on with the next target.
RECURSIVE LoopFrom(_, _)
\* The failure ends the loop instead of going on with the next target.
InnerExcept_Abort(t, i) == {[t EXCEPT !.pc = "done", !.i = i]}

\* The failure makes the loop skip the next target too.
InnerExcept_Skip(t, i) == LoopFrom(t, i + 2)

InnerExcept(t, i) == LoopFrom(t, i + 1)

LoopFrom(t, i) ==
  IF i > Len(target_channels)
    THEN {[t EXCEPT !.pc = "done", !.i = i]}
  ELSE IF t.links # <<>>
    THEN IF generate_qr_code(t.links[1]) # "raise"
           THEN {[t EXCEPT !.pc = "send_file", !.i = i]}
           ELSE InnerExcept(Log(t, Attempt(target_channels[i], "none", t.cleaned, "qr_failed")), i)
    ELSE {[t EXCEPT !.pc = "send_message", !.i = i]}

\* The lookup is skipped.
AlreadyForwarded_Never(id) == FALSE

\* message_id in self.forwarded_messages
AlreadyForwarded(id) == id \in forwarded_messages

\* The id is recorded on the attempt, whatever its result.
AfterSend_OnAttempt(forwarded, id, ok) == forwarded \cup {id}

\* The set is replaced by the latest id instead of extended.
AfterSend_Replace(forwarded, id, ok) == IF ok THEN {id} ELSE forwarded

\* self.forwarded_messages after an awaited send returned (ok) or raised
AfterSend(forwarded, id, ok) == IF ok THEN forwarded \cup {id} ELSE forwarded

\* The return is missing: the invocation goes on to send the text.
Reject_FallsThrough(t, why) == [t EXCEPT !.pc = "send_message", !.i = 1, !.outcome = why]

\* The early returns of lines 137 and 142 and the else branch of line 186.
Reject(t, why) == [t EXCEPT !.pc = "done", !.outcome = why]

NewTask(id, chat, text) ==
  [id |-> id, chat |-> chat, text |-> text, pc |-> "entry", outcome |-> "none",
   lookup |-> "none", links |-> <<>>, cleaned |-> <<>>, i |-> 0, attempts |-> <<>>]

\* handle_message from its entry to its first await or its return.  fault: an
\* exception raised before the loop (lines 133-154).
Entry(id, chat, text, fault) ==
  LET t0 == NewTask(id, chat, text)
      hit == id \in forwarded_messages
      t1 == [t0 EXCEPT !.lookup = IF hit THEN "hit" ELSE "miss"]
  IN  IF fault THEN {OuterExcept(t0)}
      ELSE IF text = <<>> THEN {Reject(t0, "no_text")}
      ELSE IF AlreadyForwarded(id) THEN {Reject(t1, "already_forwarded")}
      ELSE IF ~should_forward(text) THEN {Reject(t1, "not_qualified")}
      ELSE LoopFrom([t1 EXCEPT !.outcome = "dispatched",
                               !.links = binance_links(text),
                               !.cleaned = cleaned_text(text)], 1)

Init ==
  /\ run_pc = "start"
  /\ resolved_sources = <<>>
  /\ verified = 0
  /\ forwarded_messages = {}
  /\ tasks = <<>>
  /\ qr_works \in BOOLEAN

\* ------------------------------------------------------------------ run()
\* The handler is registered right after the client has started.
StartClient_RegistersFirst ==
  /\ run_pc = "start"
  /\ \E ok \in BOOLEAN : run_pc' = IF ok THEN "monitoring" ELSE "failed"
  /\ UNCHANGED <<resolved_sources, verified, forwarded_messages, tasks, qr_works>>

\* client.start and get_me; a failure is re-raised by run.
StartClient ==
  /\ run_pc = "start"
  /\ \E ok \in BOOLEAN : run_pc' = IF ok THEN "resolve" ELSE "failed"
  /\ UNCHANGED <<resolved_sources, verified, forwarded_messages, tasks, qr_works>>

\* initialize, first loop: get_entity of the next source channel.
ResolveSource ==
  /\ run_pc = "resolve"
  /\ \E ok \in BOOLEAN :
       IF ok
         THEN /\ resolved_sources' =
                   Append(resolved_sources, source_channels[Len(resolved_sources) + 1])
              /\ run_pc' = IF Len(resolved_sources') = Len(source_channels)
                             THEN "verify" ELSE "resolve"
         ELSE /\ run_pc' = "failed"
              /\ UNCHANGED resolved_sources
  /\ UNCHANGED <<verified, forwarded_messages, tasks, qr_works>>

\* initialize, second loop: get_entity of the next target channel; after the
\* last one run registers the handler and waits in run_until_disconnected.
VerifyTarget ==
  /\ run_pc = "verify"
  /\ \E ok \in BOOLEAN :
       IF ok
         THEN /\ verified' = verified + 1
              /\ run_pc' = IF verified' = Len(target_channels)
                             THEN "monitoring" ELSE "verify"
         ELSE /\ run_pc' = "failed"
              /\ UNCHANGED verified
  /\ UNCHANGED <<resolved_sources, forwarded_messages, tasks, qr_works>>

\* ------------------------------------------------------- handle_message
\* A new message in a resolved source channel: the handler runs to its first await.
Receive(id, chat, text, fault) ==
  /\ run_pc = "monitoring"
  /\ Len(tasks) < MaxEvents
  /\ \E t \in Entry(id, chat, text, fault) : tasks' = Append(tasks, t)
  /\ UNCHANGED <<run_pc, resolved_sources, verified, forwarded_messages, qr_works>>

\* The awaited send_file or send_message of task k returns (ok) or raises.
SendReturns(k, ok) ==
  /\ tasks[k].pc \in {"send_file", "send_message"}
  /\ LET t == tasks[k]
         a == Attempt(target_channels[t.i], t.pc, t.cleaned,
                      IF ok THEN "ok" ELSE "send_failed")
     IN  /\ forwarded_messages' = AfterSend(forwarded_messages, t.id, ok)
         /\ IF ok
              THEN tasks' = [tasks EXCEPT ![k] = [Log(t, a) EXCEPT !.pc = "sleep"]]
              ELSE \E t2 \in InnerExcept(Log(t, a), t.i) :
                     tasks' = [tasks EXCEPT ![k] = t2]
  /\ UNCHANGED <<run_pc, resolved_sources, verified, qr_works>>

\* asyncio.sleep(1) of task k returns: the loop goes on with the next target.
SleepReturns(k) ==
  /\ tasks[k].pc = "sleep"
  /\ \E t2 \in LoopFrom(tasks[k], tasks[k].i + 1) :
       tasks' = [tasks EXCEPT ![k] = t2]
  /\ UNCHANGED <<run_pc, resolved_sources, verified, forwarded_messages, qr_works>>

Idle == \A k \in TaskIds : tasks[k].pc = "done"

\* Handlers of different events interleave at their awaits.
Next ==
  \/ StartClient
  \/ ResolveSource
  \/ VerifyTarget
  \/ \E id \in Ids, chat \in 1..Len(source_channels), text \in SampleTexts, fault \in BOOLEAN :
       Receive(id, source_channels[chat], text, fault)
  \/ \E k \in TaskIds, ok \in BOOLEAN : SendReturns(k, ok)
  \/ \E k \in TaskIds : SleepReturns(k)

Spec == Init /\ [][Next]_vars

\* One event at a time: an invocation finishes before the next one starts.
NextSeq ==
  \/ StartClient
  \/ ResolveSource
  \/ VerifyTarget
  \/ \E id \in Ids, chat \in 1..Len(source_channels), text \in SampleTexts, fault \in BOOLEAN :
       Idle /\ Receive(id, source_channels[chat], text, fault)
  \/ \E k \in TaskIds, ok \in BOOLEAN : SendReturns(k, ok)
  \/ \E k \in TaskIds : SleepReturns(k)

SpecSeq == Init /\ [][NextSeq]_vars

\* One event with any text of at most MaxLen tokens.  With a single event its
\* id and its channel make no difference: they are the first of each.
NextText ==
  \/ StartClient
  \/ ResolveSource
  \/ VerifyTarget
  \/ /\ tasks = <<>>
     /\ run_pc = "monitoring"
     /\ \E text \in AllTexts, fault \in BOOLEAN :
          Receive(1, source_channels[1], text, fault)
  \/ \E k \in TaskIds, ok \in BOOLEAN : SendReturns(k, ok)
  \/ \E k \in TaskIds : SleepReturns(k)

SpecText == Init /\ [][NextText]_vars

\* ------------------------------------------------------------------ claims
Targets == {target_channels[n] : n \in 1..Len(target_channels)}

AttemptIds(k) == 1..Len(tasks[k].attempts)

\* The send calls of task k that returned successfully to target tg.
OkSends(k, tg) ==
  {j \in AttemptIds(k) : /\ tasks[k].attempts[j].target = tg
                         /\ tasks[k].attempts[j].result = "ok"}

\* All successful sends of message id to target tg, as <<task, attempt>>.
Delivered(id, tg) ==
  {p \in UNION {{<<k, j>> : j \in OkSends(k, tg)} : k \in TaskIds} : tasks[p[1]].id = id}

SomeSendSucceeded(id) ==
  \E k \in TaskIds :
    /\ tasks[k].id = id
    /\ \E j \in AttemptIds(k) : tasks[k].attempts[j].result = "ok"

\* C1: with events handled one at a time, no message id is successfully sent
\* to the same target channel more than once.
C1_AtMostOncePerDestination ==
  \A id \in Ids, tg \in Targets : Cardinality(Delivered(id, tg)) <= 1

\* An id was delivered, and a later event with the same id has been handled.
C1_Witness ==
  \E k1, k2 \in TaskIds :
    /\ k1 < k2
    /\ tasks[k1].id = tasks[k2].id
    /\ \E tg \in Targets : OkSends(k1, tg) # {}
    /\ should_forward(tasks[k2].text)
    /\ tasks[k2].outcome = "already_forwarded"

\* C2: when the send to one target fails, every other target still has its
\* pass of the loop, in the order of target_channels.
C2_FailureDoesNotBlockOthers ==
  \A k \in TaskIds :
    (/\ tasks[k].pc = "done"
     /\ \E j \in AttemptIds(k) : tasks[k].attempts[j].result = "send_failed")
    => \A n \in 1..Len(target_channels) :
         /\ n <= Len(tasks[k].attempts)
         /\ tasks[k].attempts[n].target = target_channels[n]

\* The send to the first target failed and the send to the second succeeded.
C2_Witness ==
  \E k \in TaskIds :
    /\ tasks[k].pc = "done"
    /\ Len(tasks[k].attempts) = 2
    /\ tasks[k].attempts[1].result = "send_failed"
    /\ tasks[k].attempts[2].result = "ok"

\* C3: an invocation that finds its message id in forwarded_messages makes
\* no send call and returns.
C3_DuplicateMakesNoSend ==
  \A k \in TaskIds :
    tasks[k].lookup = "hit" => tasks[k].pc = "done" /\ tasks[k].attempts = <<>>

\* A qualifying message whose id was found in forwarded_messages.
C3_Witness ==
  \E k \in TaskIds :
    /\ tasks[k].lookup = "hit"
    /\ should_forward(tasks[k].text)
    /\ tasks[k].pc = "done"

\* A token that starts, or ends, with a non-word character.
NonWordStart == {" ", "#square", "#slot"}
NonWordEnd == {" ", "Answer:", LinkPrefix}

\* text contains a forbidden term as a whole word (\b on both sides).
ContainsForbiddenWord(text) ==
  \E n \in 1..Len(text) :
    /\ text[n] \in FORBIDDEN_WORDS
    /\ n = 1 \/ text[n - 1] \in NonWordEnd
    /\ n = Len(text) \/ text[n + 1] \in NonWordStart

\* C4: a text containing a forbidden term as a whole word is rejected by
\* should_forward, so the message is not dispatched.
C4_ForbiddenWordRejected ==
  \A k \in TaskIds :
    ContainsForbiddenWord(tasks[k].text)
      => ~should_forward(tasks[k].text) /\ tasks[k].outcome # "dispatched"

\* The number of occurrences of the required link in text.
LinkCount(text) == Len(PatternFindAll(text))

\* C5: the text of every send call contains at most one occurrence of the
\* required link (two identical occurrences in the input become one).
C5_AtMostOneLinkSent ==
  \A k \in TaskIds :
    /\ tasks[k].pc \in {"send_file", "send_message"} => LinkCount(tasks[k].cleaned) <= 1
    /\ \A j \in AttemptIds(k) :
         tasks[k].attempts[j].op # "none" => LinkCount(tasks[k].attempts[j].text) <= 1

\* C6: when QR generation fails for a target, the text is still sent to that
\* target as a text-only message.
C6_QrFailureFallsBackToText ==
  \A k \in TaskIds :
    tasks[k].pc = "done" =>
      \A j \in AttemptIds(k) :
        tasks[k].attempts[j].result = "qr_failed" =>
          \E j2 \in AttemptIds(k) :
            /\ tasks[k].attempts[j2].target = tasks[k].attempts[j].target
            /\ tasks[k].attempts[j2].op = "send_message"

\* C7: no exception leaves handle_message; an invocation that failed before
\* the loop has returned without a send call, and the handler stays registered.
C7_NoFailurePropagates ==
  \A k \in TaskIds :
    /\ tasks[k].pc # "raised"
    /\ tasks[k].outcome = "error" => tasks[k].pc = "done" /\ tasks[k].attempts = <<>>
    /\ run_pc = "monitoring"

\* An invocation failed, and a later event was dispatched and delivered.
C7_Witness ==
  \E k1, k2 \in TaskIds :
    /\ k1 < k2
    /\ tasks[k1].outcome = "error"
    /\ tasks[k2].outcome = "dispatched"
    /\ \E tg \in Targets : OkSends(k2, tg) # {}

\* C8: when an invocation has finished, its message id is in
\* forwarded_messages exactly if some send of that id has succeeded.
C8_RecordedIffSomeSendSucceeded ==
  \A k \in TaskIds :
    tasks[k].pc = "done" =>
      (tasks[k].id \in forwarded_messages <=> SomeSendSucceeded(tasks[k].id))

\* Every send of a message failed, and a later event with the same id was
\* dispatched again.
C8_Witness ==
  \E k1, k2 \in TaskIds :
    /\ k1 < k2
    /\ tasks[k1].id = tasks[k2].id
    /\ tasks[k1].pc = "done"
    /\ Len(tasks[k1].attempts) = Len(target_channels)
    /\ \A j \in AttemptIds(k1) : tasks[k1].attempts[j].result = "send_failed"
    /\ tasks[k2].outcome = "dispatched"
    /\ tasks[k2].pc = "done"
    /\ tasks[k2].id \in forwarded_messages

\* C9: two interleaved invocations for the same message id do not both send
\* it successfully to the same target channel.
C9_InterleavedNoDuplicate ==
  \A k1, k2 \in TaskIds :
    (k1 # k2 /\ tasks[k1].id = tasks[k2].id)
      => \A tg \in Targets : OkSends(k1, tg) = {} \/ OkSends(k2, tg) = {}

\* C10: forwarded_messages starts empty and no step removes an id from it.
C10_DedupSetGrowsMonotonically ==
  /\ forwarded_messages = {}
  /\ [][forwarded_messages \subseteq forwarded_messages']_vars

\* Two ids have been recorded, one after the other.
C10_Witness == Cardinality(forwarded_messages) = 2

SendCalls == {"send_file", "send_message"}

\* C11: every send call of an invocation but its first is made right after the
\* delay, whatever the outcome of the send call before it.
C11_DelayBetweenAttempts ==
  [][\A k \in TaskIds :
       (/\ tasks'[k].pc \in SendCalls
        /\ tasks[k].i >= 1
        /\ tasks'[k].i > tasks[k].i)
       => tasks[k].pc = "sleep"]_vars

\* text contains the literal part of the link followed by a digit.
ContainsRequiredLink(text) ==
  \E n \in 1..(Len(text) - 1) : text[n] = LinkPrefix /\ text[n + 1] \in Digits

\* text contains one of the valid marker strings.
ContainsMarker(text) == \E n \in 1..Len(text) : text[n] \in VALID_NUMBERS

\* C12: a text without the required link, the empty text included, is not
\* accepted by should_forward and is not dispatched.
C12_NoLinkRejected ==
  \A k \in TaskIds :
    ~ContainsRequiredLink(tasks[k].text)
      => ~should_forward(tasks[k].text) /\ tasks[k].outcome # "dispatched"

\* A text with a marker and the literal part of the link but no digit was handled.
C12_Witness ==
  \E k \in TaskIds :
    /\ ContainsMarker(tasks[k].text)
    /\ \E n \in 1..Len(tasks[k].text) : tasks[k].text[n] = LinkPrefix
    /\ ~ContainsRequiredLink(tasks[k].text)
    /\ tasks[k].outcome = "not_qualified"

\* C13: a text with the required link and none of the markers is not accepted
\* by should_forward and is not dispatched.
C13_NoMarkerRejected ==
  \A k \in TaskIds :
    (ContainsRequiredLink(tasks[k].text) /\ ~ContainsMarker(tasks[k].text))
      => ~should_forward(tasks[k].text) /\ tasks[k].outcome # "dispatched"

\* A text with the required link and no marker was handled.
C13_Witness ==
  \E k \in TaskIds :
    /\ ContainsRequiredLink(tasks[k].text)
    /\ ~ContainsMarker(tasks[k].text)
    /\ tasks[k].outcome = "not_qualified"

\* clean_message followed by the link substitution of handle_message.
transform(text) == cleaned_text(clean_message(text))

\* C14: the transformation applied to its own output gives that output again.
C14_TransformIdempotent ==
  \A k \in TaskIds :
    LET once == transform(tasks[k].text) IN transform(once) = once

\* A dispatched message whose text the substitution changed.
C14_Witness ==
  \E k \in TaskIds :
    /\ tasks[k].outcome = "dispatched"
    /\ tasks[k].cleaned # tasks[k].text
    /\ tasks[k].cleaned = transform(tasks[k].text)
    /\ \E j \in AttemptIds(k) : tasks[k].attempts[j].result = "ok"

RejectOutcomes == {"no_text", "not_qualified"}

\* C15: an invocation that rejects its event (no text, or should_forward
\* false) returns at once, never makes a send call, and leaves
\* forwarded_messages as it was.
C15_RejectedHasNoEffect ==
  [][\A k \in 1..Len(tasks') :
       tasks'[k].outcome \in RejectOutcomes
         => /\ tasks'[k].pc = "done"
            /\ tasks'[k].attempts = <<>>
            /\ k > Len(tasks) => forwarded_messages' = forwarded_messages]_vars

\* A text rejected by should_forward was handled after an id had been recorded.
C15_Witness ==
  \E k \in TaskIds :
    /\ tasks[k].outcome = "not_qualified"
    /\ tasks[k].text # <<>>
    /\ forwarded_messages # {}

\* C16: the loop passes of an invocation follow target_channels, one pass per
\* target, and a send call is made only when every earlier pass has ended.
C16_SequentialInOrder ==
  \A k \in TaskIds :
    LET t == tasks[k] IN
      /\ Len(t.attempts) <= Len(target_channels)
      /\ \A j \in AttemptIds(k) : t.attempts[j].target = target_channels[j]
      /\ t.pc \in SendCalls => Len(t.attempts) = t.i - 1
      /\ t.pc = "sleep" => Len(t.attempts) = t.i
      /\ (t.pc = "done" /\ t.outcome = "dispatched")
           => Len(t.attempts) = Len(target_channels)

\* An invocation has finished its passes: a delivery, then a failed send.
C16_Witness ==
  \E k \in TaskIds :
    /\ tasks[k].pc = "done"
    /\ Len(tasks[k].attempts) = 2
    /\ tasks[k].attempts[1].result = "ok"
    /\ tasks[k].attempts[2].result = "send_failed"

\* C17: for every target of a dispatched message exactly one send call is
\* made, with the transformed text: send_file if a link was found, and
\* send_message otherwise.
C17_OneSendPerDestination ==
  \A k \in TaskIds :
    (tasks[k].pc = "done" /\ tasks[k].outcome = "dispatched")
      => \A n \in 1..Len(target_channels) :
           /\ n <= Len(tasks[k].attempts)
           /\ tasks[k].attempts[n].target = target_channels[n]
           /\ tasks[k].attempts[n].text = cleaned_text(tasks[k].text)
           /\ tasks[k].attempts[n].op =
                IF binance_links(tasks[k].text) # <<>> THEN "send_file" ELSE "send_message"

\* C18: once a message id has been delivered, a later event with that id from
\* another source channel is dropped without a send call.
C18_KeyedByIdAlone ==
  \A k1, k2 \in TaskIds :
    (/\ k1 < k2
     /\ tasks[k1].id = tasks[k2].id
     /\ tasks[k1].chat # tasks[k2].chat
     /\ \E tg \in Targets : OkSends(k1, tg) # {}
     /\ tasks[k2].text # <<>>
     /\ tasks[k2].outcome # "error")
    => /\ tasks[k2].outcome = "already_forwarded"
       /\ tasks[k2].attempts = <<>>

\* A qualifying message with a delivered id arrived from the other channel.
C18_Witness ==
  \E k1, k2 \in TaskIds :
    /\ k1 < k2
    /\ tasks[k1].id = tasks[k2].id
    /\ tasks[k1].chat # tasks[k2].chat
    /\ \E tg \in Targets : OkSends(k1, tg) # {}
    /\ should_forward(tasks[k2].text)
    /\ tasks[k2].outcome = "already_forwarded"

\* C19: events are handled only once the handler is registered, which is after
\* every source and target channel has been resolved; when run has failed no
\* event is handled.
C19_HandlerAfterInitialize ==
  /\ tasks # <<>> => run_pc = "monitoring"
  /\ run_pc = "monitoring"
       => /\ resolved_sources = source_channels
          /\ verified = Len(target_channels)
  /\ run_pc = "failed" => tasks = <<>>

\* The last target channel could not be verified: run has failed.
C19_Witness ==
  /\ run_pc = "failed"
  /\ resolved_sources = source_channels
  /\ verified = Len(target_channels) - 1
  /\ tasks = <<>>

\* C20: send_message is never called: every send call is a send_file, and a
\* dispatched message has a link.
C20_TextOnlyBranchNeverTaken ==
  \A k \in TaskIds :
    /\ tasks[k].pc # "send_message"
    /\ \A j \in AttemptIds(k) : tasks[k].attempts[j].op # "send_message"
    /\ tasks[k].outcome = "dispatched" => tasks[k].links # <<>>

\* A message was dispatched and delivered with send_file.
C20_Witness ==
  \E k \in TaskIds :
    /\ tasks[k].outcome = "dispatched"
    /\ \E j \in AttemptIds(k) :
         tasks[k].attempts[j].op = "send_file" /\ tasks[k].attempts[j].result = "ok"

====
